---- MODULE Spec2Model ----
(***************************************************************************)
(* A model of the Ignite SDK of hop-js (src/src/sdks/ignite.ts), of the    *)
(* standalone Ignite class that keeps its own authType                     *)
(* (src/unnamed/part_001) and of the Hop facade (src/unnamed/part_000).    *)
(*                                                                         *)
(* Every SDK method is an async function: it runs synchronously up to its  *)
(* first await, so argument validation and the call of the dispatcher      *)
(* (this.client.get/post/patch/delete) are one step; the settling of the   *)
(* awaited promise is a later step, and any number of calls may be         *)
(* awaiting at once.                                                       *)
(*                                                                         *)
(* JavaScript values are records tagged with their typeof.  A string is a  *)
(* tuple of the pieces between its underscores: "deployment_abc123" is     *)
(* <<"deployment", "abc123">>, "my-app-name" is <<"my-app-name">> and ""   *)
(* is <<>>.                                                                *)
(***************************************************************************)
EXTENDS Integers, Sequences, FiniteSets

VARIABLES
    authType,   \* client.authType / Ignite.authType: fixed at construction
    calls,      \* every call made so far, in call order
    requests    \* every invocation of the dispatcher, in dispatch order

vars == <<authType, calls, requests>>

\* The most calls one behaviour makes.
MaxCalls == 2

-----------------------------------------------------------------------------
(* JavaScript values *)

Undefined == [t |-> "undefined"]
Str(s) == [t |-> "string", v |-> s]
Obj(kv) == [t |-> "object", kv |-> kv]
Enum(name) == [t |-> "enum", v |-> name]

\* !v
Falsy(v) == v.t = "undefined" \/ (v.t = "string" /\ v.v = <<>>)
Truthy(v) == ~Falsy(v)

\* API.Ignite.DeploymentConfig, of which the SDK reads resources.ram only
DeploymentConfig(ram) == [t |-> "object", resources |-> [ram |-> ram]]

AuthTypes == {"bearer", "pat", "sk"}

NoError == "none"

-----------------------------------------------------------------------------
(* Helpers imported from ../rest and ../util *)

\* validateId(id, kind): the string starts with kind + "_"
validateId(id, kind) == id.t = "string" /\ Len(id.v) >= 2 /\ id.v[1] = kind

\* assertId(id, kind): TRUE when it returns, FALSE when it raises
assertId(id, kind) == validateId(id, kind)

ByteUnits == [B |-> 1, KB |-> 1024, MB |-> 1024 * 1024]

\* parseSize("6MB") = 6 * 1024 * 1024
parseSize(size) == size[1] * ByteUnits[size[2]]

SIX_MB_IN_BYTES == 6 * 1024 * 1024

-----------------------------------------------------------------------------
(* The dispatcher's entry points: each is one request *)

Request(method, path, body, params) ==
    [method |-> method, path |-> path, body |-> body, params |-> params]

client_get(path, params) == Request("GET", path, Undefined, params)
client_post(path, body, params) == Request("POST", path, body, params)
client_patch(path, body, params) == Request("PATCH", path, body, params)
client_delete(path, body, params) == Request("DELETE", path, body, params)

\* What a method does up to its first await: the error it throws, or the
\* requests it hands to the dispatcher.
Throw(msg) == [error |-> msg, reqs |-> <<>>]
Await(req) == [error |-> NoError, reqs |-> <<req>>]

-----------------------------------------------------------------------------
(* class Ignite extends BaseSDK (src/src/sdks/ignite.ts) *)

\* getAllDeployments with the first test written for bearer alone
getAllDeployments_bearerOnly(auth, teamId) ==
    IF auth = "bearer" /\ Falsy(teamId)
    THEN Throw("Team ID is required for Bearer or PAT authorization")
    ELSE IF auth = "sk" /\ Truthy(teamId)
    THEN Throw("Team ID is not required for secret authorization")
    ELSE Await(client_get("/v1/ignite/deployments",
                          IF Truthy(teamId) THEN Obj({<<"team", teamId>>})
                                            ELSE Obj({})))

getAllDeployments(auth, teamId) ==
    IF auth # "sk" /\ Falsy(teamId)
    THEN Throw("Team ID is required for Bearer or PAT authorization")
    ELSE IF auth = "sk" /\ Truthy(teamId)
    THEN Throw("Team ID is not required for secret authorization")
    ELSE Await(client_get("/v1/ignite/deployments",
                          IF Truthy(teamId) THEN Obj({<<"team", teamId>>})
                                            ELSE Obj({})))

updateContainerState(container, state) ==
    Await(client_patch("/v1/ignite/containers/:container_id/state",
                       Obj({<<"state", state>>}),
                       Obj({<<"container_id", container>>})))

\* createDeployment_resolve without the authType test of line 91
createDeployment_resolve_anyAuthWithTeam(auth, configOrTeam, bearerOrPatConfig) ==
    IF configOrTeam.t = "object"
    THEN IF auth = "sk"
         THEN [error |-> NoError, config |-> configOrTeam, team |-> Undefined]
         ELSE [error |-> "First argument must be the team ID when using bearer authorization to create deployments.",
               config |-> Undefined, team |-> Undefined]
    ELSE IF Falsy(bearerOrPatConfig)
         THEN [error |-> "Second argument must be the deployment config when using bearer authorization to create deployments.",
               config |-> Undefined, team |-> Undefined]
         ELSE [error |-> NoError, config |-> bearerOrPatConfig, team |-> configOrTeam]

\* Lines 73-99 of createDeployment: which argument is the config and which
\* the team, or the error thrown.  team is Undefined for the code's null.
createDeployment_resolve(auth, configOrTeam, bearerOrPatConfig) ==
    IF configOrTeam.t = "object"
    THEN IF auth = "sk"
         THEN [error |-> NoError, config |-> configOrTeam, team |-> Undefined]
         ELSE [error |-> "First argument must be the team ID when using bearer authorization to create deployments.",
               config |-> Undefined, team |-> Undefined]
    ELSE IF Falsy(bearerOrPatConfig)
         THEN [error |-> "Second argument must be the deployment config when using bearer authorization to create deployments.",
               config |-> Undefined, team |-> Undefined]
         ELSE IF auth = "bearer" \/ auth = "pat"
              THEN [error |-> NoError, config |-> bearerOrPatConfig, team |-> configOrTeam]
              ELSE [error |-> "Only argument must be the config when using secret authorization to create deployments.",
                    config |-> Undefined, team |-> Undefined]

\* The floor test with < for <=
createDeployment_ramTooSmall_strict(config) ==
    parseSize(config.resources.ram) < SIX_MB_IN_BYTES

\* Lines 103-107: Hop's runtime requires a minimum of 6mb of memory
createDeployment_ramTooSmall(config) ==
    parseSize(config.resources.ram) <= SIX_MB_IN_BYTES

createDeployment(auth, configOrTeam, bearerOrPatConfig) ==
    LET r == createDeployment_resolve(auth, configOrTeam, bearerOrPatConfig) IN
    IF r.error # NoError
    THEN Throw(r.error)
    ELSE IF createDeployment_ramTooSmall(r.config)
    THEN Throw("Allocated memory must be greater than 6MB when creating a deployment.")
    ELSE Await(client_post("/v1/ignite/deployments", r.config,
                           IF Truthy(r.team) THEN Obj({<<"team", r.team>>})
                                             ELSE Obj({})))

getContainers(deployment) ==
    Await(client_get("/v1/ignite/deployments/:deployment_id/containers",
                     Obj({<<"deployment_id", deployment>>})))

\* getDeployment_resolve without the assertId of line 160
getDeployment_resolve_noAssert(auth, teamOrNameOrId, nameOrId) ==
    IF Truthy(teamOrNameOrId) /\ Truthy(nameOrId)
    THEN IF auth = "sk"
         THEN [error |-> "Team ID is not required for secret authorization",
               team |-> Undefined, realNameOrId |-> Undefined]
         ELSE [error |-> NoError, team |-> teamOrNameOrId, realNameOrId |-> nameOrId]
    ELSE IF Truthy(teamOrNameOrId) /\ Falsy(nameOrId)
    THEN IF auth # "sk"
         THEN [error |-> "Team ID is required for bearer or PAT authorization",
               team |-> Undefined, realNameOrId |-> Undefined]
         ELSE [error |-> NoError, team |-> Undefined, realNameOrId |-> teamOrNameOrId]
    ELSE [error |-> "Team ID is required for bearer or PAT authorization",
          team |-> Undefined, realNameOrId |-> Undefined]

\* Lines 152-172 of getDeployment: the team and the name or ID, or the
\* error thrown.
getDeployment_resolve(auth, teamOrNameOrId, nameOrId) ==
    IF Truthy(teamOrNameOrId) /\ Truthy(nameOrId)
    THEN IF auth = "sk"
         THEN [error |-> "Team ID is not required for secret authorization",
               team |-> Undefined, realNameOrId |-> Undefined]
         ELSE IF ~assertId(teamOrNameOrId, "team")
         THEN [error |-> "InvalidIdentifier",
               team |-> Undefined, realNameOrId |-> Undefined]
         ELSE [error |-> NoError, team |-> teamOrNameOrId, realNameOrId |-> nameOrId]
    ELSE IF Truthy(teamOrNameOrId) /\ Falsy(nameOrId)
    THEN IF auth # "sk"
         THEN [error |-> "Team ID is required for bearer or PAT authorization",
               team |-> Undefined, realNameOrId |-> Undefined]
         ELSE [error |-> NoError, team |-> Undefined, realNameOrId |-> teamOrNameOrId]
    ELSE [error |-> "Team ID is required for bearer or PAT authorization",
          team |-> Undefined, realNameOrId |-> Undefined]

\* getDeployment_lookup without the validateId branch: always by ID
getDeployment_lookup_alwaysById(team, realNameOrId) ==
    client_get("/v1/ignite/deployments/:deployment_id",
               IF Truthy(team)
               THEN Obj({<<"team", team>>, <<"deployment_id", realNameOrId>>})
               ELSE Obj({<<"deployment_id", realNameOrId>>}))

\* Lines 174-190 of getDeployment: the request for a resolved call
getDeployment_lookup(team, realNameOrId) ==
    IF validateId(realNameOrId, "deployment")
    THEN client_get("/v1/ignite/deployments/:deployment_id",
                    IF Truthy(team)
                    THEN Obj({<<"team", team>>, <<"deployment_id", realNameOrId>>})
                    ELSE Obj({<<"deployment_id", realNameOrId>>}))
    ELSE client_get("/v1/ignite/deployments/search",
                    Obj({<<"name", realNameOrId>>}))

\* getDeployment without the return of line 182: after the get-by-ID request
\* it goes on to the search request
getDeployment_noReturn(auth, teamOrNameOrId, nameOrId) ==
    LET r == getDeployment_resolve(auth, teamOrNameOrId, nameOrId) IN
    IF r.error # NoError
    THEN Throw(r.error)
    ELSE IF validateId(r.realNameOrId, "deployment")
    THEN [error |-> NoError,
          reqs |-> <<getDeployment_lookup(r.team, r.realNameOrId),
                     client_get("/v1/ignite/deployments/search",
                                Obj({<<"name", r.realNameOrId>>}))>>]
    ELSE Await(getDeployment_lookup(r.team, r.realNameOrId))

getDeployment(auth, teamOrNameOrId, nameOrId) ==
    LET r == getDeployment_resolve(auth, teamOrNameOrId, nameOrId) IN
    IF r.error # NoError
    THEN Throw(r.error)
    ELSE Await(getDeployment_lookup(r.team, r.realNameOrId))

deleteDeployment(deployment) ==
    Await(client_delete("/v1/ignite/deployments/:deployment_id", Undefined,
                        Obj({<<"deployment_id", deployment>>})))

createContainer(deployment) ==
    Await(client_post("/v1/ignite/deployments/:deployment_id/containers", Undefined,
                      Obj({<<"deployment_id", deployment>>})))

deleteContainer(container) ==
    Await(client_delete("/v1/ignite/containers/:container_id", Undefined,
                        Obj({<<"container_id", container>>})))

getLogs(container) ==
    Await(client_get("/v1/ignite/containers/:container_id/logs",
                     Obj({<<"container_id", container>>})))

-----------------------------------------------------------------------------
(* class Ignite with its own authType (src/unnamed/part_001) *)

getDeployments(auth, teamId) ==
    IF auth = "bearer" /\ Falsy(teamId)
    THEN Throw("Team ID is required for Bearer or PAT authorization")
    ELSE IF Truthy(teamId) /\ auth = "sk"
    THEN Throw("Team ID is not required for secret authorization")
    ELSE Await(client_get("/v1/ignite/deployments",
                          IF Truthy(teamId) THEN Obj({<<"team", teamId>>})
                                            ELSE Undefined))

standalone_createDeployment_resolve(auth, configOrTeam, bearerOrPatConfig) ==
    IF configOrTeam.t = "object"
    THEN IF auth = "sk"
         THEN [error |-> NoError, config |-> configOrTeam, team |-> Undefined]
         ELSE [error |-> "First argument must be the team ID when using bearer authorization to create deployments.",
               config |-> Undefined, team |-> Undefined]
    ELSE IF Falsy(bearerOrPatConfig)
         THEN [error |-> "Second argument must be the deployment config when using bearer authorization to create deployments.",
               config |-> Undefined, team |-> Undefined]
         ELSE IF auth = "bearer" \/ auth = "pat"
              THEN [error |-> NoError, config |-> bearerOrPatConfig, team |-> configOrTeam]
              ELSE [error |-> "Only argument must be the config when using secret authorization to create deployments.",
                    config |-> Undefined, team |-> Undefined]

standalone_createDeployment(auth, configOrTeam, bearerOrPatConfig) ==
    LET r == standalone_createDeployment_resolve(auth, configOrTeam, bearerOrPatConfig) IN
    IF r.error # NoError
    THEN Throw(r.error)
    ELSE IF parseSize(r.config.resources.ram) <= SIX_MB_IN_BYTES
    THEN Throw("Allocated memory must be greater than 6MB when creating a deployment.")
    ELSE Await(client_post("/v1/ignite/deployments", r.config,
                           IF Truthy(r.team) THEN Obj({<<"team", r.team>>})
                                             ELSE Undefined))

-----------------------------------------------------------------------------
(* class Hop (src/unnamed/part_000) *)

\* this.sdks
Sdks == {"sdks.ignite", "sdks.user", "sdks.pipe", "sdks.projects",
         "sdks.registry", "sdks.channels"}

\* this.ignite is assigned when the object literal of lines 50-91 has been
\* evaluated; inside that literal the property is not yet set.
this_ignite_in_literal == "undefined"

\* f.bind(receiver), f a method of the instance owner
Bind(owner, method, receiver) ==
    [kind |-> "bound", owner |-> owner, method |-> method, receiver |-> receiver]

\* async (container) => { await this.sdks.ignite.updateContainerState(container, state) }
StateClosure(state) ==
    [kind |-> "closure", owner |-> "sdks.ignite", method |-> "updateContainerState",
     receiver |-> "sdks.ignite", state |-> state]

FacadeNames ==
    {"ignite.deployments.create", "ignite.deployments.delete",
     "ignite.deployments.getAll", "ignite.deployments.get",
     "ignite.deployments.getContainers",
     "ignite.deployments.gateways.getAll", "ignite.deployments.gateways.create",
     "ignite.gateways.get", "ignite.gateways.addDomain",
     "ignite.containers.create", "ignite.containers.delete",
     "ignite.containers.getLogs", "ignite.containers.stop",
     "ignite.containers.start",
     "users.me.get", "users.me.pats.create", "users.me.pats.delete",
     "users.me.pats.getAll",
     "projects.projectTokens.delete", "projects.projectTokens.get",
     "projects.projectTokens.create", "projects.secrets.create",
     "projects.secrets.getAll", "projects.secrets.delete",
     "projects.getAllMembers", "projects.getCurrentMember",
     "pipe.streams.getAll", "registry.images.getAll",
     "channels.create", "channels.tokens.create"}

\* The constructor, lines 50-140: each callable it exposes
HopConstructor ==
    [f \in FacadeNames |->
       CASE f = "ignite.deployments.create" -> Bind("sdks.ignite", "createDeployment", "sdks.ignite")
         [] f = "ignite.deployments.delete" -> Bind("sdks.ignite", "deleteDeployment", "sdks.ignite")
         [] f = "ignite.deployments.getAll" -> Bind("sdks.ignite", "getAllDeployments", "sdks.ignite")
         [] f = "ignite.deployments.get" -> Bind("sdks.ignite", "getDeployment", "sdks.ignite")
         [] f = "ignite.deployments.getContainers" -> Bind("sdks.ignite", "getContainers", "sdks.ignite")
         [] f = "ignite.deployments.gateways.getAll" -> Bind("sdks.ignite", "getGatewaysForDeployment", "sdks.ignite")
         [] f = "ignite.deployments.gateways.create" -> Bind("sdks.ignite", "createGateway", "sdks.ignite")
         [] f = "ignite.gateways.get" -> Bind("sdks.ignite", "getGateway", this_ignite_in_literal)
         [] f = "ignite.gateways.addDomain" -> Bind("sdks.ignite", "addDomainToGateway", "sdks.ignite")
         [] f = "ignite.containers.create" -> Bind("sdks.ignite", "createContainer", "sdks.ignite")
         [] f = "ignite.containers.delete" -> Bind("sdks.ignite", "deleteContainer", "sdks.ignite")
         [] f = "ignite.containers.getLogs" -> Bind("sdks.ignite", "getLogs", "sdks.ignite")
         [] f = "ignite.containers.stop" -> StateClosure(Enum("STOPPED"))
         [] f = "ignite.containers.start" -> StateClosure(Enum("RUNNING"))
         [] f = "users.me.get" -> Bind("sdks.user", "getMe", "sdks.user")
         [] f = "users.me.pats.create" -> Bind("sdks.user", "createPAT", "sdks.user")
         [] f = "users.me.pats.delete" -> Bind("sdks.user", "deletePAT", "sdks.user")
         [] f = "users.me.pats.getAll" -> Bind("sdks.user", "getAllPATs", "sdks.user")
         [] f = "projects.projectTokens.delete" -> Bind("sdks.projects", "deleteProjectToken", "sdks.projects")
         [] f = "projects.projectTokens.get" -> Bind("sdks.projects", "getProjectTokens", "sdks.projects")
         [] f = "projects.projectTokens.create" -> Bind("sdks.projects", "createProjectToken", "sdks.projects")
         [] f = "projects.secrets.create" -> Bind("sdks.projects", "createSecret", "sdks.projects")
         [] f = "projects.secrets.getAll" -> Bind("sdks.projects", "getSecrets", "sdks.projects")
         [] f = "projects.secrets.delete" -> Bind("sdks.projects", "deleteSecret", "sdks.projects")
         [] f = "projects.getAllMembers" -> Bind("sdks.projects", "getAllMembers", "sdks.projects")
         [] f = "projects.getCurrentMember" -> Bind("sdks.projects", "getCurrentMember", "sdks.projects")
         [] f = "pipe.streams.getAll" -> Bind("sdks.pipe", "getStreams", "sdks.pipe")
         [] f = "registry.images.getAll" -> Bind("sdks.registry", "getImages", "sdks.registry")
         [] f = "channels.create" -> Bind("sdks.channels", "create", "sdks.ignite")
         [] f = "channels.tokens.create" -> Bind("sdks.channels", "createToken", "sdks.channels")]

-----------------------------------------------------------------------------
(* The arguments the calls are made with *)

team_a == Str(<<"team", "a">>)
project_p == Str(<<"project", "p">>)
deployment_x == Str(<<"deployment", "x">>)
my_app_name == Str(<<"my-app-name">>)
empty == Str(<<>>)
container_1 == Str(<<"container", "1">>)
container_2 == Str(<<"container", "2">>)

\* "6MB" is the floor itself, "6291457B" one byte above it, "6143KB" below it
Rams == {<<6, "MB">>, <<6291457, "B">>, <<6143, "KB">>}
Configs == {DeploymentConfig(ram) : ram \in Rams}

OptionalTeams == {Undefined, team_a}
ConfigOrTeams == {team_a} \cup Configs
OptionalConfigs == {Undefined} \cup Configs
TeamOrNameOrIds == {Undefined, empty, team_a, project_p, deployment_x, my_app_name}
NameOrIds == {Undefined, deployment_x, my_app_name}
Deployments == {deployment_x}
Containers == {container_1, container_2}
PatchStates == {Enum("PENDING"), Enum("STOPPED")}

-----------------------------------------------------------------------------
(* The state machine *)

TypeOK ==
    /\ authType \in AuthTypes
    /\ Len(calls) <= MaxCalls
    /\ \A i \in 1..Len(calls) :
          /\ calls[i].status \in {"threw", "awaiting", "returned", "rejected", "entered"}
          /\ calls[i].receiver \in Sdks \cup {"ignite", "undefined"}
    /\ \A k \in 1..Len(requests) : requests[k].call \in 1..Len(calls)

Init ==
    /\ authType \in AuthTypes
    /\ calls = <<>>
    /\ requests = <<>>

\* The record of a call of op with args, run with this = receiver, that
\* behaves as outcome up to its first await
Called(op, receiver, args, outcome) ==
    [op |-> op, args |-> args, error |-> outcome.error, receiver |-> receiver,
     status |-> IF outcome.error = NoError THEN "awaiting" ELSE "threw"]

\* The dispatcher invocations of the call being made
Dispatched(outcome) ==
    [k \in 1..Len(outcome.reqs) |-> [call |-> Len(calls) + 1, req |-> outcome.reqs[k]]]

Call_getAllDeployments ==
    \E teamId \in OptionalTeams :
       LET outcome == getAllDeployments(authType, teamId) IN
       /\ Len(calls) < MaxCalls
       /\ calls' = Append(calls, Called("getAllDeployments", "sdks.ignite", <<teamId>>, outcome))
       /\ requests' = requests \o Dispatched(outcome)
       /\ UNCHANGED authType

Call_updateContainerState ==
    \E container \in Containers, state \in PatchStates :
       LET outcome == updateContainerState(container, state) IN
       /\ Len(calls) < MaxCalls
       /\ calls' = Append(calls, Called("updateContainerState", "sdks.ignite", <<container, state>>, outcome))
       /\ requests' = requests \o Dispatched(outcome)
       /\ UNCHANGED authType

Call_createDeployment ==
    \E configOrTeam \in ConfigOrTeams, bearerOrPatConfig \in OptionalConfigs :
       LET outcome == createDeployment(authType, configOrTeam, bearerOrPatConfig) IN
       /\ Len(calls) < MaxCalls
       /\ calls' = Append(calls, Called("createDeployment", "sdks.ignite", <<configOrTeam, bearerOrPatConfig>>, outcome))
       /\ requests' = requests \o Dispatched(outcome)
       /\ UNCHANGED authType

Call_getContainers ==
    \E deployment \in Deployments :
       LET outcome == getContainers(deployment) IN
       /\ Len(calls) < MaxCalls
       /\ calls' = Append(calls, Called("getContainers", "sdks.ignite", <<deployment>>, outcome))
       /\ requests' = requests \o Dispatched(outcome)
       /\ UNCHANGED authType

Call_getDeployment ==
    \E teamOrNameOrId \in TeamOrNameOrIds, nameOrId \in NameOrIds :
       LET outcome == getDeployment(authType, teamOrNameOrId, nameOrId) IN
       /\ Len(calls) < MaxCalls
       /\ calls' = Append(calls, Called("getDeployment", "sdks.ignite", <<teamOrNameOrId, nameOrId>>, outcome))
       /\ requests' = requests \o Dispatched(outcome)
       /\ UNCHANGED authType

Call_deleteDeployment ==
    \E deployment \in Deployments :
       LET outcome == deleteDeployment(deployment) IN
       /\ Len(calls) < MaxCalls
       /\ calls' = Append(calls, Called("deleteDeployment", "sdks.ignite", <<deployment>>, outcome))
       /\ requests' = requests \o Dispatched(outcome)
       /\ UNCHANGED authType

Call_createContainer ==
    \E deployment \in Deployments :
       LET outcome == createContainer(deployment) IN
       /\ Len(calls) < MaxCalls
       /\ calls' = Append(calls, Called("createContainer", "sdks.ignite", <<deployment>>, outcome))
       /\ requests' = requests \o Dispatched(outcome)
       /\ UNCHANGED authType

Call_deleteContainer ==
    \E container \in Containers :
       LET outcome == deleteContainer(container) IN
       /\ Len(calls) < MaxCalls
       /\ calls' = Append(calls, Called("deleteContainer", "sdks.ignite", <<container>>, outcome))
       /\ requests' = requests \o Dispatched(outcome)
       /\ UNCHANGED authType

Call_getLogs ==
    \E container \in Containers :
       LET outcome == getLogs(container) IN
       /\ Len(calls) < MaxCalls
       /\ calls' = Append(calls, Called("getLogs", "sdks.ignite", <<container>>, outcome))
       /\ requests' = requests \o Dispatched(outcome)
       /\ UNCHANGED authType

\* The class of src/unnamed/part_001, constructed on its own: new Ignite(authorization)
Call_getDeployments ==
    \E teamId \in OptionalTeams :
       LET outcome == getDeployments(authType, teamId) IN
       /\ Len(calls) < MaxCalls
       /\ calls' = Append(calls, Called("getDeployments", "ignite", <<teamId>>, outcome))
       /\ requests' = requests \o Dispatched(outcome)
       /\ UNCHANGED authType

Call_standalone_createDeployment ==
    \E configOrTeam \in ConfigOrTeams, bearerOrPatConfig \in OptionalConfigs :
       LET outcome == standalone_createDeployment(authType, configOrTeam, bearerOrPatConfig) IN
       /\ Len(calls) < MaxCalls
       /\ calls' = Append(calls, Called("standalone_createDeployment", "ignite", <<configOrTeam, bearerOrPatConfig>>, outcome))
       /\ requests' = requests \o Dispatched(outcome)
       /\ UNCHANGED authType

\* hop.ignite.containers.stop(container), lines 77-82
containers_stop(container) ==
    updateContainerState(container, HopConstructor["ignite.containers.stop"].state)

\* start as a copy of stop that kept its state
containers_start_stopped(container) ==
    updateContainerState(container, HopConstructor["ignite.containers.stop"].state)

\* hop.ignite.containers.start(container), lines 84-89
containers_start(container) ==
    updateContainerState(container, HopConstructor["ignite.containers.start"].state)

Call_containers_stop ==
    \E container \in Containers :
       LET outcome == containers_stop(container) IN
       /\ Len(calls) < MaxCalls
       /\ calls' = Append(calls, Called("containers.stop", "sdks.ignite", <<container>>, outcome))
       /\ requests' = requests \o Dispatched(outcome)
       /\ UNCHANGED authType

Call_containers_start ==
    \E container \in Containers :
       LET outcome == containers_start(container) IN
       /\ Len(calls) < MaxCalls
       /\ calls' = Append(calls, Called("containers.start", "sdks.ignite", <<container>>, outcome))
       /\ requests' = requests \o Dispatched(outcome)
       /\ UNCHANGED authType

\* hop.<f>(...) for a callable f of the facade: the method is entered with
\* this = the receiver it was bound to.  (The bodies of the other SDKs'
\* methods are not modelled: the call is recorded as entered.)
Call_facade ==
    \E f \in FacadeNames :
       /\ Len(calls) < MaxCalls
       /\ calls' = Append(calls,
                          [op |-> f, args |-> <<>>, error |-> NoError,
                           receiver |-> HopConstructor[f].receiver,
                           status |-> "entered"])
       /\ UNCHANGED <<authType, requests>>

\* The dispatcher's promise resolves: the awaiting call returns
Resolve ==
    \E i \in 1..Len(calls) :
       /\ calls[i].status = "awaiting"
       /\ calls' = [calls EXCEPT ![i].status = "returned"]
       /\ UNCHANGED <<authType, requests>>

\* The dispatcher's promise rejects: no method catches, the call rejects
Reject ==
    \E i \in 1..Len(calls) :
       /\ calls[i].status = "awaiting"
       /\ calls' = [calls EXCEPT ![i].status = "rejected",
                                 ![i].error = "DispatcherError"]
       /\ UNCHANGED <<authType, requests>>

Next ==
    \/ Call_getAllDeployments
    \/ Call_updateContainerState
    \/ Call_createDeployment
    \/ Call_getContainers
    \/ Call_getDeployment
    \/ Call_deleteDeployment
    \/ Call_createContainer
    \/ Call_deleteContainer
    \/ Call_getLogs
    \/ Call_containers_stop
    \/ Call_containers_start
    \/ Resolve
    \/ Reject

\* A Hop client and the Ignite SDK of src/src/sdks/ignite.ts behind it
Spec == Init /\ [][Next]_vars

NextDeployments ==
    \/ Call_createDeployment
    \/ Call_standalone_createDeployment
    \/ Call_getDeployments
    \/ Resolve
    \/ Reject

\* The deployment-creating and -listing calls of both Ignite classes
SpecDeployments == Init /\ [][NextDeployments]_vars

NextFacade == Call_facade

\* Calls through the callables the Hop constructor hands out
SpecFacade == Init /\ [][NextFacade]_vars

-----------------------------------------------------------------------------
(* What the properties read *)

CallsOf(ops) == {i \in 1..Len(calls) : calls[i].op \in ops}

\* The dispatcher invocations made by call i
RequestsOf(i) == {k \in 1..Len(requests) : requests[k].call = i}

Raised(i) == calls[i].status = "threw" /\ calls[i].error # NoError

RaisedBeforeDispatch(i) == Raised(i) /\ RequestsOf(i) = {}

DispatchedOnce(i) == Cardinality(RequestsOf(i)) = 1 /\ calls[i].status # "threw"

TheRequest(i) == requests[CHOOSE k \in RequestsOf(i) : TRUE].req

BearerOrPat == authType \in {"bearer", "pat"}

CreateOps == {"createDeployment", "standalone_createDeployment"}

\* The two argument shapes createDeployment accepts
SkConfigShape(i) == authType = "sk" /\ calls[i].args[1].t = "object"

TeamConfigShape(i) ==
    /\ BearerOrPat
    /\ calls[i].args[1].t = "string"
    /\ calls[i].args[2].t = "object"

-----------------------------------------------------------------------------
\* C1: createDeployment with an sk credential and a team ID as first argument
\* raises and dispatches nothing; with a bearer or pat credential and a config
\* as first argument (no team ID) it raises and dispatches nothing; a request
\* is dispatched only for (sk, config first) or (bearer/pat, team ID + config).
C1_CreateDeploymentAuthPolicy ==
    \A i \in CallsOf(CreateOps) :
       /\ (authType = "sk" /\ calls[i].args[1].t = "string")
             => RaisedBeforeDispatch(i)
       /\ (BearerOrPat /\ calls[i].args[1].t = "object")
             => RaisedBeforeDispatch(i)
       /\ RequestsOf(i) # {} => SkConfigShape(i) \/ TeamConfigShape(i)

\* An sk client was given (team, config) and raised, and was given a config
\* alone and dispatched.
C1_Witness ==
    /\ authType = "sk"
    /\ \E i \in CallsOf({"createDeployment"}) :
          /\ calls[i].args = <<team_a, DeploymentConfig(<<6291457, "B">>)>>
          /\ RaisedBeforeDispatch(i)
    /\ \E j \in CallsOf({"createDeployment"}) :
          /\ calls[j].args = <<DeploymentConfig(<<6291457, "B">>), Undefined>>
          /\ DispatchedOnce(j)

\* The config a call of an accepted shape carries
AcceptedConfig(i) ==
    IF calls[i].args[1].t = "object" THEN calls[i].args[1] ELSE calls[i].args[2]

AcceptedTeamParams(i) ==
    IF calls[i].args[1].t = "object" THEN {} ELSE {<<"team", calls[i].args[1]>>}

\* The parameters of a request, none when the method passed undefined
ParamsOf(r) == IF r.params.t = "object" THEN r.params.kv ELSE {}

\* C2: for a createDeployment call of an accepted shape, a RAM allocation that
\* parses to 6*1024*1024 bytes or less raises and dispatches no POST; one that
\* parses to 6*1024*1024 + 1 bytes or more does not raise and dispatches
\* exactly one POST /v1/ignite/deployments carrying that config.
C2_ResourceFloor ==
    \A i \in CallsOf(CreateOps) :
       (SkConfigShape(i) \/ TeamConfigShape(i)) =>
          LET bytes == parseSize(AcceptedConfig(i).resources.ram) IN
          /\ bytes <= 6291456 => RaisedBeforeDispatch(i)
          /\ bytes >= 6291457 =>
                /\ DispatchedOnce(i)
                /\ TheRequest(i).method = "POST"
                /\ TheRequest(i).path = "/v1/ignite/deployments"
                /\ TheRequest(i).body = AcceptedConfig(i)
                /\ ParamsOf(TheRequest(i)) = AcceptedTeamParams(i)

\* A bearer client created deployments with exactly 6 MiB (raised) and with
\* one byte more (one POST).
C2_Witness ==
    /\ authType = "bearer"
    /\ \E i \in CallsOf({"createDeployment"}) :
          /\ calls[i].args = <<team_a, DeploymentConfig(<<6, "MB">>)>>
          /\ RaisedBeforeDispatch(i)
    /\ \E j \in CallsOf({"createDeployment"}) :
          /\ calls[j].args = <<team_a, DeploymentConfig(<<6291457, "B">>)>>
          /\ DispatchedOnce(j)
          /\ TheRequest(j).method = "POST"

\* C8: the standalone Ignite.getDeployments raises and dispatches nothing
\* without a team ID under bearer or under pat, and with a team ID under sk;
\* a GET is dispatched only for (bearer/pat with team ID) or (sk without).
C8_GetDeploymentsTeamPolicy ==
    \A i \in CallsOf({"getDeployments"}) :
       /\ (BearerOrPat /\ calls[i].args[1] = Undefined) => RaisedBeforeDispatch(i)
       /\ (authType = "sk" /\ calls[i].args[1] # Undefined) => RaisedBeforeDispatch(i)
       /\ RequestsOf(i) # {} =>
             \/ BearerOrPat /\ calls[i].args[1] # Undefined
             \/ authType = "sk" /\ calls[i].args[1] = Undefined

-----------------------------------------------------------------------------
ById == "/v1/ignite/deployments/:deployment_id"
Search == "/v1/ignite/deployments/search"

\* The name or ID a getDeployment call looks up: its second argument when a
\* team precedes it, its only argument otherwise
LookupArg(i) ==
    IF Truthy(calls[i].args[1]) /\ Truthy(calls[i].args[2])
    THEN calls[i].args[2]
    ELSE calls[i].args[1]

\* C3: every request getDeployment dispatches is GET .../:deployment_id with
\* deployment_id = the argument if validateId(argument, 'deployment'), and
\* GET .../search with name = the argument otherwise; an ID never goes to the
\* search endpoint and a name never to the get-by-ID endpoint.
C3_DualModeLookup ==
    \A i \in CallsOf({"getDeployment"}) :
       \A k \in RequestsOf(i) :
          LET r == requests[k].req
              a == LookupArg(i)
          IN /\ r.method = "GET"
             /\ validateId(a, "deployment")
                   => r.path = ById /\ <<"deployment_id", a>> \in r.params.kv
             /\ ~validateId(a, "deployment")
                   => r.path = Search /\ <<"name", a>> \in r.params.kv

\* A bearer client looked up a deployment ID (get-by-ID) and a name (search).
C3_Witness ==
    /\ \E i \in CallsOf({"getDeployment"}) :
          /\ calls[i].args = <<team_a, deployment_x>>
          /\ DispatchedOnce(i)
          /\ TheRequest(i).path = ById
    /\ \E j \in CallsOf({"getDeployment"}) :
          /\ calls[j].args = <<team_a, my_app_name>>
          /\ DispatchedOnce(j)
          /\ TheRequest(j).path = Search

\* C4: getAllDeployments raises and dispatches nothing exactly when (bearer or
\* pat and no team ID) or (sk and a team ID); otherwise it dispatches one GET
\* /v1/ignite/deployments with team = the team ID under bearer/pat and no
\* team parameter under sk.
C4_GetAllDeploymentsTeamPolicy ==
    \A i \in CallsOf({"getAllDeployments"}) :
       LET teamId == calls[i].args[1]
           mustRaise == \/ BearerOrPat /\ teamId = Undefined
                        \/ authType = "sk" /\ teamId # Undefined
       IN /\ mustRaise => RaisedBeforeDispatch(i)
          /\ ~mustRaise =>
                /\ DispatchedOnce(i)
                /\ TheRequest(i).method = "GET"
                /\ TheRequest(i).path = "/v1/ignite/deployments"
                /\ TheRequest(i).params.kv =
                      (IF BearerOrPat THEN {<<"team", teamId>>} ELSE {})

\* A pat client listed deployments without a team ID (raised) and with one
\* (one GET carrying it).
C4_Witness ==
    /\ authType = "pat"
    /\ \E i \in CallsOf({"getAllDeployments"}) :
          calls[i].args = <<Undefined>> /\ RaisedBeforeDispatch(i)
    /\ \E j \in CallsOf({"getAllDeployments"}) :
          /\ calls[j].args = <<team_a>>
          /\ DispatchedOnce(j)
          /\ TheRequest(j).params.kv = {<<"team", team_a>>}

\* C5: getDeployment raises and dispatches nothing when (a) two non-empty
\* arguments are given under sk, (b) a single argument is given under bearer
\* or pat, (c) the first argument is empty or missing, or (d) two arguments
\* are given under bearer/pat and the first fails assertId(first, 'team'); in
\* every other case it dispatches exactly one GET.  No request carries a team
\* parameter that is not a team ID.
C5_GetDeploymentArgumentPolicy ==
    \A i \in CallsOf({"getDeployment"}) :
       LET first == calls[i].args[1]
           second == calls[i].args[2]
           two == Truthy(first) /\ Truthy(second)
           mustRaise == \/ two /\ authType = "sk"
                        \/ Truthy(first) /\ Falsy(second) /\ BearerOrPat
                        \/ Falsy(first)
                        \/ two /\ BearerOrPat /\ ~assertId(first, "team")
       IN /\ mustRaise => RaisedBeforeDispatch(i)
          /\ ~mustRaise => DispatchedOnce(i) /\ TheRequest(i).method = "GET"
          /\ \A k \in RequestsOf(i) :
                \A kv \in requests[k].req.params.kv :
                   kv[1] = "team" => validateId(kv[2], "team")

\* A bearer client passed a project ID where the team ID goes (raised, nothing
\* sent) and passed a team ID (one GET).
C5_Witness ==
    /\ authType = "bearer"
    /\ \E i \in CallsOf({"getDeployment"}) :
          /\ calls[i].args = <<project_p, deployment_x>>
          /\ RaisedBeforeDispatch(i)
    /\ \E j \in CallsOf({"getDeployment"}) :
          /\ calls[j].args = <<team_a, deployment_x>>
          /\ DispatchedOnce(j)

StatePath == "/v1/ignite/containers/:container_id/state"

\* C6: each containers.stop(c) dispatches exactly one PATCH
\* /v1/ignite/containers/:container_id/state with container_id = c and body
\* {state: STOPPED}; each containers.start(c) exactly one such PATCH with
\* state PENDING or RUNNING; the requests sent are one per call, in call
\* order, whatever calls came before.
C6_ContainerLifecycleWrappers ==
    /\ \A i \in CallsOf({"containers.stop", "containers.start"}) :
          /\ DispatchedOnce(i)
          /\ TheRequest(i).method = "PATCH"
          /\ TheRequest(i).path = StatePath
          /\ TheRequest(i).params.kv = {<<"container_id", calls[i].args[1]>>}
          /\ \E state \in (IF calls[i].op = "containers.stop"
                           THEN {Enum("STOPPED")}
                           ELSE {Enum("PENDING"), Enum("RUNNING")}) :
                TheRequest(i).body.kv = {<<"state", state>>}
    /\ \A k, l \in 1..Len(requests) :
          k < l => requests[k].call < requests[l].call

\* container_1 was stopped, then started: two PATCHes, in that order.
C6_Witness ==
    /\ Len(calls) >= 2
    /\ calls[1].op = "containers.stop" /\ calls[1].args = <<container_1>>
    /\ calls[2].op = "containers.start" /\ calls[2].args = <<container_1>>
    /\ Len(requests) = 2
    /\ requests[1].req.body.kv = {<<"state", Enum("STOPPED")>>}
    /\ requests[2].req.body.kv = {<<"state", Enum("RUNNING")>>}

\* C7: every callable of the facade is bound to the SDK instance that owns
\* its method: no call through the facade runs with another SDK's instance,
\* a namespace object or undefined as its receiver.
C7_FacadeBoundToOwner ==
    \A i \in CallsOf(FacadeNames) :
       calls[i].receiver = HopConstructor[calls[i].op].owner

\* C10: whenever getDeployment(team, nameOrId) is accepted under bearer or
\* pat, the request it dispatches carries team = the supplied team ID, on the
\* get-by-ID branch and on the search-by-name branch.
C10_TeamScopingPreserved ==
    \A i \in CallsOf({"getDeployment"}) :
       (BearerOrPat /\ RequestsOf(i) # {}) =>
          \A k \in RequestsOf(i) :
             <<"team", calls[i].args[1]>> \in requests[k].req.params.kv

\* C9, the state part: a call has invoked the dispatcher at most once, not at
\* all if it raised and once otherwise; a call the dispatcher failed has still
\* made one request only and carries the dispatcher's error; two calls with
\* the same operation and arguments made the same request.
C9_OneAttempt ==
    \A i \in 1..Len(calls) :
       /\ Cardinality(RequestsOf(i)) <= 1
       /\ calls[i].status = "threw" <=> RequestsOf(i) = {}
       /\ calls[i].status = "rejected" => calls[i].error = "DispatcherError"
       /\ calls[i].status \in {"awaiting", "returned"} => calls[i].error = NoError
       /\ \A j \in 1..Len(calls) :
             (calls[j].op = calls[i].op /\ calls[j].args = calls[i].args) =>
                /\ RequestsOf(i) = {} <=> RequestsOf(j) = {}
                /\ RequestsOf(i) # {} => TheRequest(i) = TheRequest(j)

\* C9, the step part: no step writes authType, adds a request to a call made
\* earlier, or changes a call that has settled.
C9_NoInterference ==
    /\ authType' = authType
    /\ \A i \in 1..Len(calls) :
          /\ RequestsOf(i) = {k \in 1..Len(requests') : requests'[k].call = i}
          /\ \A k \in RequestsOf(i) : requests'[k] = requests[k]
          /\ calls[i].status \in {"threw", "returned", "rejected"}
                => calls'[i] = calls[i]

\* C9: for any Ignite operations issued concurrently on one client, each call
\* invokes the dispatcher at most once (zero times if it raises a client-side
\* precondition error, exactly once otherwise), a dispatcher failure reaches
\* the caller with no second attempt, and no call's request or outcome
\* depends on another call: no operation writes the client's authType.
C9_SingleAttemptPerCall == []C9_OneAttempt /\ [][C9_NoInterference]_vars

\* Two calls were awaiting at once; the dispatcher failed the first and
\* answered the second, and each had made one request.
C9_Witness ==
    /\ Len(calls) >= 2
    /\ calls[1].status = "rejected"
    /\ calls[2].status = "returned"
    /\ Len(requests) = 2
    /\ \E i \in 1..Len(calls) : calls[i].op = "createDeployment"

====
